---- MODULE Spec2Model ----
(***************************************************************************)
(* The incident feed of app.py (SmartCrowd OS dashboard).                  *)
(*                                                                         *)
(* app.py is a Streamlit script: every user interaction of a session       *)
(* re-runs the whole script, top to bottom, against that session's         *)
(* st.session_state.  The only state the script keeps between runs is the  *)
(* list st.session_state.alerts; the only widgets it reads are the sidebar *)
(* radio `nav` and the button "Simulate Critical Surge".                   *)
(*                                                                         *)
(* One action of the model is one user interaction followed by the script  *)
(* run it causes.                                                          *)
(***************************************************************************)
EXTENDS Integers, Sequences, FiniteSets, TLC

VARIABLES
    connected,      \* connected[s]: session s has run the script at least once
    session_keys,   \* session_keys[s]: the keys present in st.session_state of s
    alerts,         \* alerts[s]: st.session_state.alerts of s (a list of dicts)
    nav,            \* nav[s]: the value of the sidebar radio of s
    rows,           \* rows[s]: the feed rows the last script run of s put on the page
    pressed,        \* pressed[s]: what st.button returned in the last script run of s
    invocations,    \* history: the clock readings of the triggers of s, oldest first
    seedings,       \* history: how often the script of s took the branch of line 28
    feed_in,        \* the list handed to the render loop when it is checked alone
    feed_out        \* the rows the render loop produced for feed_in

vars == <<connected, session_keys, alerts, nav, rows, pressed,
          invocations, seedings, feed_in, feed_out>>

session_vars == <<connected, session_keys, alerts, nav, rows, pressed,
                  invocations, seedings>>

feed_vars == <<feed_in, feed_out>>

----------------------------------------------------------------------------
(* Bounds of the model *)

\* sessions of the multi-session specification
NumSessions == 2
\* triggers per session in the single-session specification (store grows to 2 + 5 = 7 > 6)
MaxTriggers == 5
\* triggers per session in the multi-session specification
MaxTriggersMulti == 2
\* longest list handed to the render loop when it is checked alone
MaxFeedLen == 3

Sessions == 1 .. NumSessions

\* the session of the single-session specification
MainSession == 1

\* datetime.now(): seconds since midnight of the readings the model draws
\* (12:00:00 and 23:59:59); two triggers may read the same second
Clock == {43200, 86399}

----------------------------------------------------------------------------
(* Program constants and pure helpers *)

\* the options of st.radio("Navigation", ...), in order; index 0 is the default
NavOptions ==
    <<"Strategic Goals", "Live Command Center", "AI Analytics", "System Deployment">>

Live == "Live Command Center"

\* the literal of lines 29-32, built anew by every run that takes the branch
Seed ==
    << [time |-> "19:04:22", msg |-> "System Calibration Complete", type |-> "success"],
       [time |-> "19:10:05", msg |-> "Sensor Node 14 Active", type |-> "info"] >>

\* the slice bound of alerts[:6]
DisplayLimit == 6

Digit == <<"0", "1", "2", "3", "4", "5", "6", "7", "8", "9">>

\* %H, %M, %S: a zero-padded two-digit decimal
TwoDigits(n) == Digit[(n \div 10) + 1] \o Digit[(n % 10) + 1]

\* datetime.strftime("%H:%M:%S") of a reading t, in seconds since midnight
strftime(t) ==
    TwoDigits((t \div 3600) % 24) \o ":" \o TwoDigits((t \div 60) % 60)
        \o ":" \o TwoDigits(t % 60)

NewAlertCritical(t) ==
    [time |-> strftime(t), msg |-> "Density Spike: Gate 4", type |-> "critical"]

\* new_alert of line 117
NewAlert(t) ==
    [time |-> strftime(t), msg |-> "Density Spike: Gate 4", type |-> "error"]

Min(a, b) == IF a < b THEN a ELSE b

InsertAtEnd(list, index, x) == list \o <<x>>

InsertOverHead(list, index, x) ==
    IF list = <<>> THEN <<x>> ELSE <<x>> \o Tail(list)

\* list.insert(index, x) for index >= 0: x goes before position index,
\* or at the end when index >= len(list)
Insert(list, index, x) ==
    LET at == Min(index, Len(list))
    IN  SubSeq(list, 1, at) \o <<x>> \o SubSeq(list, at + 1, Len(list))

SliceLast(list, n) ==
    SubSeq(list, Len(list) - Min(n, Len(list)) + 1, Len(list))

\* list[:n] for n >= 0
Slice(list, n) == SubSeq(list, 1, Min(n, Len(list)))

\* the if / elif / else of lines 121-123: which of st.error, st.success, st.info is called
Treatment(a) ==
    IF a.type = "error" THEN "error"
    ELSE IF a.type = "success" THEN "success"
    ELSE "info"

\* f"**{a['time']}** | {a['msg']}"
Markdown(a) == "**" \o a.time \o "** | " \o a.msg

\* one iteration of the loop of line 120
RenderRow(a) == [kind |-> Treatment(a), text |-> Markdown(a)]

RECURSIVE RenderRows(_)
\* the loop of line 120 over an already sliced list
RenderRows(list) ==
    IF list = <<>> THEN <<>>
    ELSE <<RenderRow(Head(list))>> \o RenderRows(Tail(list))

\* for a in st.session_state.alerts[:6]: ...
RenderFeed(list) == RenderRows(Slice(list, DisplayLimit))

----------------------------------------------------------------------------
(* The script run *)

NeedsInitAlways(s) == TRUE

\* line 28: 'alerts' not in st.session_state
NeedsInit(s) == "alerts" \notin session_keys[s]

TriggeredInLive(n, click) == n = Live

\* lines 80 and 116: the insert runs in the Live Command Center branch, and only
\* in the run in which the button returns True
Triggered(n, click) == n = Live /\ click

FeedSourceStale(before, after) == before

\* line 120 reads st.session_state.alerts after line 118 has written it
FeedSource(before, after) == after

SetAlertsShared(s, list) == [o \in Sessions |-> list]

\* st.session_state belongs to one session: a write touches that session only
SetAlerts(s, list) == [alerts EXCEPT ![s] = list]

\* One run of app.py for session s, the radio holding n, the button returning
\* click, and datetime.now() reading t if it is called.
ScriptRun(s, n, click, t) ==
    LET seeded  == NeedsInit(s)
        initial == IF seeded THEN Seed ELSE alerts[s]
        fired   == Triggered(n, click)
        final   == IF fired THEN Insert(initial, 0, NewAlert(t)) ELSE initial
        shown   == IF n = Live THEN RenderFeed(FeedSource(initial, final)) ELSE <<>>
    IN  /\ session_keys' = [session_keys EXCEPT ![s] = @ \cup {"alerts"}]
        /\ alerts' = SetAlerts(s, final)
        /\ nav' = [nav EXCEPT ![s] = n]
        /\ rows' = [rows EXCEPT ![s] = shown]
        /\ pressed' = [pressed EXCEPT ![s] = click]
        /\ invocations' =
              [invocations EXCEPT ![s] = IF fired THEN Append(@, t) ELSE @]
        /\ seedings' = [seedings EXCEPT ![s] = IF seeded THEN @ + 1 ELSE @]

\* a browser opens the app: a new session, the radio at its default, first run
Connect(s) ==
    /\ ~connected[s]
    /\ connected' = [connected EXCEPT ![s] = TRUE]
    /\ ScriptRun(s, NavOptions[1], FALSE, 0)
    /\ UNCHANGED feed_vars

\* the user picks another radio option: a rerun with the new value
SelectNav(s, n) ==
    /\ connected[s]
    /\ n # nav[s]
    /\ ScriptRun(s, n, FALSE, 0)
    /\ UNCHANGED <<connected, feed_vars>>

\* the user clicks "Simulate Critical Surge", which is on the page only when the
\* last run rendered the Live Command Center: a rerun in which st.button is True
ClickButton(s, t, cap) ==
    /\ connected[s]
    /\ nav[s] = Live
    /\ Len(invocations[s]) < cap
    /\ ScriptRun(s, nav[s], TRUE, t)
    /\ UNCHANGED <<connected, feed_vars>>

\* a rerun with no widget changed (the Rerun command of the app menu)
Rerun(s) ==
    /\ connected[s]
    /\ ScriptRun(s, nav[s], FALSE, 0)
    /\ UNCHANGED <<connected, feed_vars>>

\* the render loop of lines 120-123 applied to feed_in
RenderInput ==
    /\ feed_out' = RenderFeed(feed_in)
    /\ UNCHANGED <<session_vars, feed_in>>

----------------------------------------------------------------------------
(* Specifications *)

InitSessions ==
    /\ connected = [s \in Sessions |-> FALSE]
    /\ session_keys = [s \in Sessions |-> {}]
    /\ alerts = [s \in Sessions |-> <<>>]
    /\ nav = [s \in Sessions |-> NavOptions[1]]
    /\ rows = [s \in Sessions |-> <<>>]
    /\ pressed = [s \in Sessions |-> FALSE]
    /\ invocations = [s \in Sessions |-> <<>>]
    /\ seedings = [s \in Sessions |-> 0]

Init ==
    /\ InitSessions
    /\ feed_in = <<>>
    /\ feed_out = <<>>

\* one session
Next ==
    \/ Connect(MainSession)
    \/ \E n \in {NavOptions[i] : i \in 1 .. Len(NavOptions)} : SelectNav(MainSession, n)
    \/ \E t \in Clock : ClickButton(MainSession, t, MaxTriggers)
    \/ Rerun(MainSession)

Spec == Init /\ [][Next]_vars

\* several sessions, their script runs interleaved in any order
NextMulti ==
    \E s \in Sessions :
        \/ Connect(s)
        \/ \E n \in {NavOptions[i] : i \in 1 .. Len(NavOptions)} : SelectNav(s, n)
        \/ \E t \in Clock : ClickButton(s, t, MaxTriggersMulti)
        \/ Rerun(s)

SpecMulti == Init /\ [][NextMulti]_vars

\* severities a dict handed to the render loop may carry: the three the loop
\* names and two it does not
FeedSeverities == {"info", "success", "error", "warning", "critical"}

FeedRecords ==
    {[time |-> "19:10:05", msg |-> "Sensor Node 14 Active", type |-> ty] :
        ty \in FeedSeverities}

InitView ==
    /\ InitSessions
    /\ feed_in \in UNION {[1 .. n -> FeedRecords] : n \in 0 .. MaxFeedLen}
    /\ feed_out = <<>>

NextView == RenderInput

SpecView == InitView /\ [][NextView]_vars

----------------------------------------------------------------------------
(* Properties *)

TriggerRecord(t) ==
    [time |-> strftime(t), msg |-> "Density Spike: Gate 4", type |-> "error"]

InfoSeed == [time |-> "19:10:05", msg |-> "Sensor Node 14 Active", type |-> "info"]

SuccessSeed ==
    [time |-> "19:04:22", msg |-> "System Calibration Complete", type |-> "success"]

Last(seq) == seq[Len(seq)]

\* C1: a freshly initialized store is [InfoSeed, SuccessSeed], in that order, and
\* after exactly one trigger at time t the first six records are
\* [trigger record of t, InfoSeed, SuccessSeed], in that order.
C1_EndToEnd ==
    \A s \in Sessions :
        connected[s] =>
            /\ Len(invocations[s]) = 0 => alerts[s] = <<InfoSeed, SuccessSeed>>
            /\ Len(invocations[s]) = 1 =>
                  Slice(alerts[s], 6) =
                      <<TriggerRecord(invocations[s][1]), InfoSeed, SuccessSeed>>

\* C2: after k triggers the store has 2 + k records; its first k records are the
\* trigger records, the latest invocation first, equal timestamps kept apart;
\* its last two records are the two seeds.
C2_TriggersStack ==
    \A s \in Sessions :
        connected[s] =>
            LET k == Len(invocations[s])
            IN  /\ Len(alerts[s]) = 2 + k
                /\ \A i \in 1 .. k :
                      alerts[s][i] = TriggerRecord(invocations[s][k + 1 - i])
                /\ {alerts[s][k + 1], alerts[s][k + 2]} = {InfoSeed, SuccessSeed}

C2_Witness ==
    \E s \in Sessions :
        /\ connected[s]
        /\ Len(invocations[s]) = 3
        /\ invocations[s][1] = invocations[s][2]
        /\ invocations[s][3] # invocations[s][2]
        /\ Len(alerts[s]) = 5
        /\ alerts[s][1].time = "23:59:59"
        /\ alerts[s][2].time = "12:00:00"
        /\ alerts[s][3].time = "12:00:00"

\* C3: whenever the feed is on the page its rows are the first min(6, size)
\* records of the store, in store order: never more than 6 rows, and one row per
\* record while size <= 6.
C3_FeedIsFirstSix ==
    \A s \in Sessions :
        (connected[s] /\ nav[s] = Live) =>
            /\ Len(rows[s]) <= 6
            /\ Len(rows[s]) = (IF Len(alerts[s]) < 6 THEN Len(alerts[s]) ELSE 6)
            /\ \A i \in 1 .. Len(rows[s]) :
                  rows[s][i].text = "**" \o alerts[s][i].time \o "** | " \o alerts[s][i].msg

C3_Witness ==
    \E s \in Sessions :
        /\ connected[s]
        /\ nav[s] = Live
        /\ Len(alerts[s]) = 7
        /\ Len(rows[s]) = 6
        /\ rows[s][1].text = "**23:59:59** | Density Spike: Gate 4"
        /\ rows[s][5].text = "**12:00:00** | Density Spike: Gate 4"
        /\ rows[s][6].text = "**19:04:22** | System Calibration Complete"

C5_SeedOncePerSession ==
    [][\A s \in Sessions :
          /\ (~connected[s] /\ connected'[s]) =>
                /\ seedings'[s] = 1
                /\ Len(alerts'[s]) = 2
                /\ {alerts'[s][1], alerts'[s][2]} = {InfoSeed, SuccessSeed}
          /\ connected[s] =>
                /\ seedings'[s] = seedings[s]
                /\ Len(alerts'[s]) >= Len(alerts[s])
                /\ SubSeq(alerts'[s], Len(alerts'[s]) - Len(alerts[s]) + 1,
                          Len(alerts'[s])) = alerts[s]]_vars

C5_Witness ==
    \E s \in Sessions :
        /\ connected[s]
        /\ seedings[s] = 1
        /\ Len(invocations[s]) = 2
        /\ nav[s] = "AI Analytics"
        /\ ~pressed[s]
        /\ Len(alerts[s]) = 4
        /\ alerts[s][1].type = "error"
        /\ alerts[s][2].type = "error"

\* C6: a run in which the trigger does not fire leaves the store as it was, and
\* when it follows a run that rendered the feed and renders the feed itself, its
\* rows are the rows of that run.
C6_RenderIsPure ==
    [][\A s \in Sessions :
          (connected[s] /\ ~pressed'[s]) =>
              /\ alerts'[s] = alerts[s]
              /\ (nav[s] = Live /\ nav'[s] = Live) => rows'[s] = rows[s]]_vars

C6_Witness ==
    \E s \in Sessions :
        /\ connected[s]
        /\ nav[s] = Live
        /\ ~pressed[s]
        /\ Len(invocations[s]) = 1
        /\ Len(rows[s]) = 3
        /\ rows[s][1].kind = "error"

\* C7: a trigger in one session changes that session's store only: every other
\* session keeps its store and its rendered feed.
C7_SessionsIndependent ==
    [][\A s, o \in Sessions :
          (s # o /\ Len(invocations'[s]) = Len(invocations[s]) + 1) =>
              /\ alerts'[o] = alerts[o]
              /\ rows'[o] = rows[o]
              /\ session_keys'[o] = session_keys[o]]_vars

C7_Witness ==
    \E s, o \in Sessions :
        /\ s # o
        /\ connected[s] /\ connected[o]
        /\ pressed[s]
        /\ Len(alerts[s]) = 3
        /\ nav[o] = Live
        /\ Len(alerts[o]) = 2
        /\ Len(rows[o]) = 2

\* C8: a trigger puts the new record at index 0 and moves every old record back
\* by one, unchanged; the store never gets shorter.
C8_PrependFrame ==
    [][\A s \in Sessions :
          connected[s] =>
              /\ Len(alerts'[s]) >= Len(alerts[s])
              /\ Len(invocations'[s]) = Len(invocations[s]) + 1 =>
                    /\ Len(alerts'[s]) = Len(alerts[s]) + 1
                    /\ alerts'[s][1] = TriggerRecord(Last(invocations'[s]))
                    /\ \A i \in 1 .. Len(alerts[s]) :
                          alerts'[s][i + 1] = alerts[s][i]]_vars

C8_Witness ==
    \E s \in Sessions :
        /\ connected[s]
        /\ pressed[s]
        /\ Len(alerts[s]) = 4
        /\ alerts[s][1].time = "12:00:00"
        /\ alerts[s][2].time = "23:59:59"

\* C9: the run in which the trigger fires renders the feed with the record it
\* inserted as the first row.
C9_FeedShowsTrigger ==
    \A s \in Sessions :
        (connected[s] /\ pressed[s]) =>
            /\ nav[s] = Live
            /\ Len(invocations[s]) >= 1
            /\ Len(rows[s]) >= 1
            /\ rows[s][1] =
                  [kind |-> "error",
                   text |-> "**" \o strftime(Last(invocations[s]))
                                \o "** | Density Spike: Gate 4"]

C9_Witness ==
    \E s \in Sessions :
        /\ connected[s]
        /\ pressed[s]
        /\ Len(invocations[s]) = 2
        /\ invocations[s][1] # invocations[s][2]
        /\ rows[s][1].text = "**12:00:00** | Density Spike: Gate 4"
        /\ rows[s][2].text = "**23:59:59** | Density Spike: Gate 4"

\* C10: every record of the store has a severity in {info, success, error}:
\* the seeds are success and info, every triggered record is error, and a
\* rendered row gets the fallback (info) treatment only for an info record.
C10_SeverityClosed ==
    \A s \in Sessions :
        connected[s] =>
            /\ \A i \in 1 .. Len(alerts[s]) :
                  /\ alerts[s][i].type \in {"info", "success", "error"}
                  /\ i <= Len(invocations[s]) => alerts[s][i].type = "error"
            /\ {alerts[s][i].type :
                   i \in Len(invocations[s]) + 1 .. Len(alerts[s])} = {"success", "info"}
            /\ \A i \in 1 .. Len(rows[s]) :
                  rows[s][i].kind = "info" => alerts[s][i].type = "info"

C10_Witness ==
    \E s \in Sessions :
        /\ connected[s]
        /\ nav[s] = Live
        /\ Len(rows[s]) = 3
        /\ rows[s][1].kind = "error"
        /\ {rows[s][2].kind, rows[s][3].kind} = {"success", "info"}

====
